---- MODULE Spec2Model ----
(***************************************************************************)
(* Member Data QA System: the FastAPI service of main.py (DataFetcher,     *)
(* answer_question_simple, the /ask handler, the startup hook) and the     *)
(* offline profiler of analyze_data.py.                                    *)
(*                                                                         *)
(* Text is modelled as a sequence of one-character strings, so that the    *)
(* regular expressions and substring tests of the source are computed      *)
(* character by character.  Python values (the JSON payload, the records)  *)
(* are tagged records: NoneType, int, str, list, dict.                     *)
(***************************************************************************)
EXTENDS Integers, Sequences, FiniteSets, TLC

VARIABLES
  cache,        \* DataFetcher._cache: None or whatever the last fetch stored
  pc,           \* per coroutine: "idle" | "fetching" | "done"
  question,     \* per client: request.question of the request being served
  net,          \* per coroutine: outcome of its outstanding client.get
  resp,         \* per client: the last HTTP response it received
  netCalls,     \* number of GETs issued against MESSAGES_API_URL
  qa_question,  \* answer_question_simple: argument question
  qa_messages,  \* answer_question_simple: argument messages
  qa_result,    \* answer_question_simple: what the call produced
  an_messages,  \* analyze_data: argument messages
  an_result     \* analyze_data: what the call produced

vars == << cache, pc, question, net, resp, netCalls,
           qa_question, qa_messages, qa_result, an_messages, an_result >>

---------------------------------------------------------------------------
(* Characters and strings                                                  *)

UpperChars == << "A","B","C","D","E","F","G","H","I","J","K","L","M",
                 "N","O","P","Q","R","S","T","U","V","W","X","Y","Z" >>
LowerChars == << "a","b","c","d","e","f","g","h","i","j","k","l","m",
                 "n","o","p","q","r","s","t","u","v","w","x","y","z" >>
DigitChars == << "0","1","2","3","4","5","6","7","8","9" >>

UpperSet == { UpperChars[i] : i \in 1..26 }
LowerSet == { LowerChars[i] : i \in 1..26 }
DigitSet == { DigitChars[i] : i \in 1..10 }

\* [A-Z], [a-z], \d, \s and \w of the re module, on ASCII text
IsUpper(c) == c \in UpperSet
IsLower(c) == c \in LowerSet
IsDigit(c) == c \in DigitSet
IsSpace(c) == c \in {" ", "\t", "\n", "\r", "\f"}
IsWord(c) == IsUpper(c) \/ IsLower(c) \/ IsDigit(c) \/ c = "_"

Max(S) == CHOOSE x \in S : \A y \in S : y <= x
Min(S) == CHOOSE x \in S : \A y \in S : x <= y

\* str.lower()
ToLower(c) == IF IsUpper(c)
              THEN LowerChars[CHOOSE i \in 1..26 : UpperChars[i] = c]
              ELSE c
lower(s) == [i \in 1..Len(s) |-> ToLower(s[i])]

\* s[i:i+len(w)] == w
At(w, s, i) == /\ i >= 1
               /\ i + Len(w) - 1 <= Len(s)
               /\ \A k \in 1..Len(w) : s[i + k - 1] = w[k]

\* the same under re.IGNORECASE (w is lower case)
AtNoCase(w, s, i) == /\ i >= 1
                     /\ i + Len(w) - 1 <= Len(s)
                     /\ \A k \in 1..Len(w) : ToLower(s[i + k - 1]) = w[k]

\* Python's `sub in s`
Contains(sub, s) == \E i \in 1..(Len(s) - Len(sub) + 1) : At(sub, s, i)

\* str.strip(): leading and trailing whitespace removed
strip(s) ==
  LET keep == { i \in 1..Len(s) : ~IsSpace(s[i]) }
  IN  IF keep = {} THEN << >> ELSE SubSeq(s, Min(keep), Max(keep))

\* s[:n]
Prefix(s, n) == SubSeq(s, 1, IF Len(s) < n THEN Len(s) ELSE n)

\* end of the longest run of characters satisfying P that starts at j
\* (j-1 when s[j] does not satisfy P): what a greedy P* consumes
RunEnd(P(_), s, j) ==
  CHOOSE e \in (j - 1)..Len(s) :
    /\ \A k \in j..e : P(s[k])
    /\ e = Len(s) \/ ~P(s[e + 1])

\* int(digits) and str(n)
RECURSIVE ParseInt(_)
ParseInt(ds) ==
  IF ds = << >> THEN 0
  ELSE 10 * ParseInt(SubSeq(ds, 1, Len(ds) - 1))
       + (CHOOSE n \in 0..9 : DigitChars[n + 1] = ds[Len(ds)])

RECURSIVE IntToStr(_)
IntToStr(n) ==
  IF n < 10 THEN << DigitChars[n + 1] >>
  ELSE IntToStr(n \div 10) \o << DigitChars[(n % 10) + 1] >>

\* \b: between a word character and a non-word character or an end
BoundaryBefore(s, i) == i = 1 \/ ~IsWord(s[i - 1])
BoundaryAfter(s, e) == e = Len(s) \/ ~IsWord(s[e + 1])

K_trip == <<"t", "r", "i", "p">>
K_london == <<"l", "o", "n", "d", "o", "n">>
K_car == <<"c", "a", "r">>
K_cars == <<"c", "a", "r", "s">>
K_restaurant == <<"r", "e", "s", "t", "a", "u", "r", "a", "n", "t">>
K_favorite == <<"f", "a", "v", "o", "r", "i", "t", "e">>

common_words ==
  { <<"W", "h", "e", "n">>,
    <<"W", "h", "a", "t">>,
    <<"H", "o", "w">>,
    <<"W", "h", "e", "r", "e">>,
    <<"W", "h", "o">>,
    <<"W", "h", "y">>,
    <<"T", "h", "e">>,
    <<"I", "s">>,
    <<"A", "r", "e">>,
    <<"D", "o", "e", "s">>,
    <<"H", "a", "v", "e">>,
    <<"H", "a", "s">>,
    <<"H", "e", "r">>,
    <<"H", "i", "s">>,
    <<"T", "h", "e", "i", "r">>,
    <<"P", "l", "a", "n", "n", "i", "n", "g">>,
    <<"M", "a", "n", "y">>,
    <<"F", "a", "v", "o", "r", "i", "t", "e">> }
MonthNames ==
  << <<"j", "a", "n", "u", "a", "r", "y">>,
     <<"f", "e", "b", "r", "u", "a", "r", "y">>,
     <<"m", "a", "r", "c", "h">>,
     <<"a", "p", "r", "i", "l">>,
     <<"m", "a", "y">>,
     <<"j", "u", "n", "e">>,
     <<"j", "u", "l", "y">>,
     <<"a", "u", "g", "u", "s", "t">>,
     <<"s", "e", "p", "t", "e", "m", "b", "e", "r">>,
     <<"o", "c", "t", "o", "b", "e", "r">>,
     <<"n", "o", "v", "e", "m", "b", "e", "r">>,
     <<"d", "e", "c", "e", "m", "b", "e", "r">> >>
WeekdayNames ==
  << <<"m", "o", "n", "d", "a", "y">>,
     <<"t", "u", "e", "s", "d", "a", "y">>,
     <<"w", "e", "d", "n", "e", "s", "d", "a", "y">>,
     <<"t", "h", "u", "r", "s", "d", "a", "y">>,
     <<"f", "r", "i", "d", "a", "y">>,
     <<"s", "a", "t", "u", "r", "d", "a", "y">>,
     <<"s", "u", "n", "d", "a", "y">> >>
RelativeHeads == << <<"t", "h", "i", "s">>, <<"n", "e", "x", "t">> >>
RelativeTails ==
  << <<"w", "e", "e", "k">>,
     <<"f", "r", "i", "d", "a", "y">>,
     <<"m", "o", "n", "d", "a", "y">>,
     <<"t", "u", "e", "s", "d", "a", "y">>,
     <<"w", "e", "d", "n", "e", "s", "d", "a", "y">>,
     <<"t", "h", "u", "r", "s", "d", "a", "y">>,
     <<"s", "a", "t", "u", "r", "d", "a", "y">>,
     <<"s", "u", "n", "d", "a", "y">> >>
TheMember == <<"t", "h", "e", " ", "m", "e", "m", "b", "e", "r">>

---------------------------------------------------------------------------
(* Python values                                                           *)

None == [t |-> "NoneType"]
Str(s) == [t |-> "str", s |-> s]
Num(n) == [t |-> "int", n |-> n]
List(l) == [t |-> "list", l |-> l]
Dict(f) == [t |-> "dict", f |-> f]

\* isinstance(v, dict), isinstance(v, list), isinstance(v, str)
IsDict(v) == v.t = "dict"
IsList(v) == v.t = "list"
IsStr(v) == v.t = "str"

\* d.get(k, default) and `k in d`
HasKey(d, k) == k \in DOMAIN d.f
Get(d, k, default) == IF HasKey(d, k) THEN d.f[k] ELSE default

\* truth value of v, as `if v:` and `not v` test it
Truthy(v) ==
  CASE v.t = "NoneType" -> FALSE
    [] v.t = "int" -> v.n # 0
    [] v.t = "str" -> v.s # << >>
    [] v.t = "list" -> v.l # << >>
    [] v.t = "dict" -> DOMAIN v.f # {}

\* the keys of the records of the model, in a fixed iteration order
KeyOrder == << "total", "items", "name", "user_name", "message", "timestamp" >>
KeysOf(d) == SelectSeq(KeyOrder, LAMBDA k : HasKey(d, k))

\* `for x in v` succeeds on list, str and dict, and raises TypeError on the rest
Iterable(v) == v.t \in {"list", "str", "dict"}
Elements(v) ==
  CASE v.t = "list" -> v.l
    [] v.t = "str" -> [i \in 1..Len(v.s) |-> Str(<< v.s[i] >>)]
    [] v.t = "dict" -> [i \in 1..Len(KeysOf(v)) |-> Str(<< >>)]
    [] OTHER -> << >>

\* str(v) inside an f-string, for None, int, str and lists of those
RECURSIVE PyRepr(_)
RECURSIVE JoinRepr(_)
JoinRepr(l) ==
  IF l = << >> THEN << >>
  ELSE IF Len(l) = 1 THEN PyRepr(l[1])
  ELSE PyRepr(l[1]) \o << ",", " " >> \o JoinRepr(Tail(l))
PyRepr(v) ==
  CASE v.t = "NoneType" -> << "N", "o", "n", "e" >>
    [] v.t = "int" -> IntToStr(v.n)
    [] v.t = "str" -> << "'" >> \o v.s \o << "'" >>
    [] v.t = "list" -> << "[" >> \o JoinRepr(v.l) \o << "]" >>
    [] OTHER -> << "{", "}" >>
PyStr(v) == IF v.t = "str" THEN v.s ELSE PyRepr(v)

---------------------------------------------------------------------------
(* The regular expressions of answer_question_simple                       *)

\* [A-Z][a-z]+ starting at i: the index of its last character, 0 when it
\* does not match there
WordEnd(s, i) ==
  IF i >= 1 /\ i <= Len(s) /\ IsUpper(s[i]) /\ RunEnd(IsLower, s, i + 1) >= i + 1
  THEN RunEnd(IsLower, s, i + 1)
  ELSE 0

\* name_pattern \b([A-Z][a-z]+(?:\s+[A-Z][a-z]+)?)\b starting at i: the
\* index of the last character of the match, 0 when there is none.  The
\* optional second word is taken when the \b after it holds, else the match
\* falls back to the first word alone.
NameEnd(s, i) ==
  IF ~BoundaryBefore(s, i) \/ WordEnd(s, i) = 0 THEN 0
  ELSE LET e1 == WordEnd(s, i)
           w  == RunEnd(IsSpace, s, e1 + 1)
           e2 == IF w >= e1 + 1 THEN WordEnd(s, w + 1) ELSE 0
       IN  IF e2 > 0 /\ BoundaryAfter(s, e2) THEN e2
           ELSE IF BoundaryAfter(s, e1) THEN e1
           ELSE 0

\* re.findall(name_pattern, s): the non-overlapping matches, left to right
RECURSIVE FindAllNames(_, _)
FindAllNames(s, i) ==
  IF i > Len(s) THEN << >>
  ELSE IF NameEnd(s, i) > 0
       THEN << SubSeq(s, i, NameEnd(s, i)) >> \o FindAllNames(s, NameEnd(s, i) + 1)
       ELSE FindAllNames(s, i + 1)

\* \d{4}-\d{2}-\d{2} at i
IsoDateAt(s, i) ==
  /\ i + 9 <= Len(s)
  /\ \A k \in {0, 1, 2, 3, 5, 6, 8, 9} : IsDigit(s[i + k])
  /\ s[i + 4] = "-" /\ s[i + 7] = "-"

\* \d{1,2}/\d{1,2}/\d{4} at i, with a and b digits in the first two groups
SlashDateLen(s, i, a, b) ==
  /\ i + a + b + 5 <= Len(s)
  /\ \A k \in 0..(a - 1) : IsDigit(s[i + k])
  /\ s[i + a] = "/"
  /\ \A k \in 1..b : IsDigit(s[i + a + k])
  /\ s[i + a + b + 1] = "/"
  /\ \A k \in 2..5 : IsDigit(s[i + a + b + k])
SlashDateAt(s, i) == \E a \in {1, 2}, b \in {1, 2} : SlashDateLen(s, i, a, b)
SlashDateEnd(s, i) ==
  LET ab == CHOOSE p \in {1, 2} \X {1, 2} : SlashDateLen(s, i, p[1], p[2])
  IN  i + ab[1] + ab[2] + 5

\* (january|...|december)\s+\d{1,2} at i, case ignored
MonthDayWord(s, i, m) ==
  /\ AtNoCase(MonthNames[m], s, i)
  /\ LET e == i + Len(MonthNames[m]) - 1
         w == RunEnd(IsSpace, s, e + 1)
     IN  w >= e + 1 /\ w + 1 <= Len(s) /\ IsDigit(s[w + 1])
MonthDayAt(s, i) == \E m \in 1..Len(MonthNames) : MonthDayWord(s, i, m)

\* (monday|...|sunday) at i, case ignored
WeekdayAt(s, i) == \E d \in 1..Len(WeekdayNames) : AtNoCase(WeekdayNames[d], s, i)

\* (this|next)\s+(week|friday|...) at i, case ignored
RelativeWords(s, i, h, r) ==
  /\ AtNoCase(RelativeHeads[h], s, i)
  /\ LET e == i + Len(RelativeHeads[h]) - 1
         w == RunEnd(IsSpace, s, e + 1)
     IN  w >= e + 1 /\ AtNoCase(RelativeTails[r], s, w + 1)
RelativeAt(s, i) ==
  \E h \in 1..Len(RelativeHeads), r \in 1..Len(RelativeTails) : RelativeWords(s, i, h, r)

\* the first element re.findall(pattern, s) returns: the leftmost match
FirstAt(M(_, _), s) == Min({ i \in 1..Len(s) : M(s, i) })
Matches(M(_, _), s) == \E i \in 1..Len(s) : M(s, i)

\* what findall returns for each match: the whole match when the pattern
\* has no group, the group when it has one, the tuple of groups when it has
\* two (rendered as the f-string renders it)
IsoDateText(s) == SubSeq(s, FirstAt(IsoDateAt, s), FirstAt(IsoDateAt, s) + 9)
SlashDateText(s) ==
  SubSeq(s, FirstAt(SlashDateAt, s), SlashDateEnd(s, FirstAt(SlashDateAt, s)))
MonthDayText(s) ==
  LET i == FirstAt(MonthDayAt, s)
      m == CHOOSE m \in 1..Len(MonthNames) : MonthDayWord(s, i, m)
  IN  SubSeq(s, i, i + Len(MonthNames[m]) - 1)
WeekdayText(s) ==
  LET i == FirstAt(WeekdayAt, s)
      d == CHOOSE d \in 1..Len(WeekdayNames) : AtNoCase(WeekdayNames[d], s, i)
  IN  SubSeq(s, i, i + Len(WeekdayNames[d]) - 1)
RelativeText(s) ==
  LET i  == FirstAt(RelativeAt, s)
      hr == CHOOSE p \in (1..Len(RelativeHeads)) \X (1..Len(RelativeTails)) :
              RelativeWords(s, i, p[1], p[2])
      e  == i + Len(RelativeHeads[hr[1]]) - 1
      w  == RunEnd(IsSpace, s, e + 1)
  IN  PyRepr(Str(SubSeq(s, i, e))) \o << ",", " " >>
        \o PyRepr(Str(SubSeq(s, w + 1, w + Len(RelativeTails[hr[2]]))))

\* dates, as far as the code reads it: the list is empty iff no pattern
\* matches, and its head is the leftmost match of the first pattern, in
\* date_patterns order, that matches at all
dates(message_text) ==
  (IF Matches(IsoDateAt, message_text) THEN << IsoDateText(message_text) >> ELSE << >>)
  \o (IF Matches(SlashDateAt, message_text) THEN << SlashDateText(message_text) >> ELSE << >>)
  \o (IF Matches(MonthDayAt, message_text) THEN << MonthDayText(message_text) >> ELSE << >>)
  \o (IF Matches(WeekdayAt, message_text) THEN << WeekdayText(message_text) >> ELSE << >>)
  \o (IF Matches(RelativeAt, message_text)
      THEN << << "(" >> \o RelativeText(message_text) \o << ")" >> >> ELSE << >>)

\* \b(\d+)\s*car at i
CarNumberAt(s, i) ==
  /\ IsDigit(s[i])
  /\ BoundaryBefore(s, i)
  /\ At(K_car, s, RunEnd(IsSpace, s, RunEnd(IsDigit, s, i) + 1) + 1)
\* numbers, as far as the code reads it: empty iff there is no match, and
\* its head is the digits of the leftmost match
numbers(msg_lower) ==
  IF Matches(CarNumberAt, msg_lower)
  THEN << SubSeq(msg_lower, FirstAt(CarNumberAt, msg_lower),
                 RunEnd(IsDigit, msg_lower, FirstAt(CarNumberAt, msg_lower))) >>
  ELSE << >>

\* ([A-Z][a-z]+(?:\s+[A-Z][a-z]+)*) from a first word ending at e: the end
\* of the phrase after the greedy repetition
RECURSIVE PhraseEnd(_, _)
PhraseEnd(s, e) ==
  LET w == RunEnd(IsSpace, s, e + 1)
  IN  IF w >= e + 1 /\ WordEnd(s, w + 1) > 0
      THEN PhraseEnd(s, WordEnd(s, w + 1))
      ELSE e

\* re.findall(restaurant_name_pattern, s)
RECURSIVE FindAllPhrases(_, _)
FindAllPhrases(s, i) ==
  IF i > Len(s) THEN << >>
  ELSE IF WordEnd(s, i) > 0
       THEN << SubSeq(s, i, PhraseEnd(s, WordEnd(s, i))) >>
              \o FindAllPhrases(s, PhraseEnd(s, WordEnd(s, i)) + 1)
       ELSE FindAllPhrases(s, i + 1)

\* restaurant_pattern: the phrase, then \s+restaurant.  Only the whole
\* phrase can be followed by the lower-case word: after a shorter one comes
\* a capital.  The value is the index of the last character of the match.
BeforeRestaurantEnd(s, i) ==
  IF WordEnd(s, i) = 0 THEN 0
  ELSE LET e == PhraseEnd(s, WordEnd(s, i))
           w == RunEnd(IsSpace, s, e + 1)
       IN  IF w >= e + 1 /\ At(K_restaurant, s, w + 1)
           THEN w + Len(K_restaurant)
           ELSE 0
RECURSIVE FindAllBeforeRestaurant(_, _)
FindAllBeforeRestaurant(s, i) ==
  IF i > Len(s) THEN << >>
  ELSE IF BeforeRestaurantEnd(s, i) > 0
       THEN << SubSeq(s, i, PhraseEnd(s, WordEnd(s, i))) >>
              \o FindAllBeforeRestaurant(s, BeforeRestaurantEnd(s, i) + 1)
       ELSE FindAllBeforeRestaurant(s, i + 1)

\* re.findall(r'"([^"]+)"', s)
QuoteClose(s, i) ==
  IF i < Len(s) /\ s[i] = "\"" /\ s[i + 1] # "\""
        /\ \E j \in (i + 2)..Len(s) : s[j] = "\""
  THEN Min({ j \in (i + 2)..Len(s) : s[j] = "\"" })
  ELSE 0
RECURSIVE FindAllQuoted(_, _)
FindAllQuoted(s, i) ==
  IF i > Len(s) THEN << >>
  ELSE IF QuoteClose(s, i) > 0
       THEN << SubSeq(s, i + 1, QuoteClose(s, i) - 1) >>
              \o FindAllQuoted(s, QuoteClose(s, i) + 1)
       ELSE FindAllQuoted(s, i + 1)

\* len(n.split()): the number of whitespace-separated words of n
WordCount(n) ==
  Cardinality({ i \in 1..Len(n) : ~IsSpace(n[i]) /\ (i = 1 \/ IsSpace(n[i - 1])) })

Range(q) == { q[i] : i \in 1..Len(q) }

\* what one message adds to restaurants
RestaurantsOf(message_text) ==
  Range(FindAllBeforeRestaurant(message_text, 1))
  \cup { q \in Range(FindAllQuoted(message_text, 1)) : Contains(K_restaurant, lower(q)) }
  \cup { n \in Range(FindAllPhrases(message_text, 1)) : WordCount(n) <= 3 }

---------------------------------------------------------------------------
(* answer_question_simple                                                  *)

\* What a call produces: the sentence it returns, kept as the f-string's
\* template and the values formatted into it, or the exception it raises.
Answer(tmpl, name, text, count, items) ==
  [kind |-> "answer", tmpl |-> tmpl, name |-> name, text |-> text,
   count |-> count, items |-> items]
Raised ==
  [kind |-> "error", tmpl |-> "", name |-> << >>, text |-> << >>,
   count |-> 0, items |-> {}]

EmptyStr == Str(<< >>)

\* names: the capitalized tokens of the question that are no common word
ExtractNames(q) ==
  SelectSeq(FindAllNames(q, 1), LAMBDA n : n \notin common_words)

\* msg.get('user_name', '').lower() or msg.get('message', '').lower()
\* raises AttributeError on a value that is no str
FilterRaises(elems) ==
  \E i \in 1..Len(elems) :
    /\ IsDict(elems[i])
    /\ \/ ~IsStr(Get(elems[i], "user_name", EmptyStr))
       \/ ~IsStr(Get(elems[i], "message", EmptyStr))

NameMatches(names, msg) ==
  \E k \in 1..Len(names) :
    \/ Contains(lower(names[k]), lower(Get(msg, "user_name", EmptyStr).s))
    \/ Contains(lower(names[k]), lower(Get(msg, "message", EmptyStr).s))

\* relevant_messages
RelevantMessages(names, elems) ==
  IF names # << >>
  THEN SelectSeq(elems, LAMBDA msg : IsDict(msg) /\ NameMatches(names, msg))
  ELSE SelectSeq(elems, IsDict)

\* timestamp[:10] formatted into the sentence; slicing raises TypeError on
\* an int and on a dict
SliceRaises(timestamp) == timestamp.t \notin {"str", "list"}
Slice10(timestamp) ==
  IF timestamp.t = "str" THEN Prefix(timestamp.s, 10)
  ELSE PyRepr(List(Prefix(timestamp.l, 10)))

\* the sentence built from the first relevant message that mentions london
TripAnswerFrom(name_display, msg) ==
  LET message_text == Get(msg, "message", EmptyStr).s
      timestamp == Get(msg, "timestamp", EmptyStr)
  IN  IF dates(message_text) # << >>
      THEN Answer("trip_date", name_display, dates(message_text)[1], 0, {})
      ELSE IF Truthy(timestamp)
           THEN IF SliceRaises(timestamp) THEN Raised
                ELSE Answer("trip_timestamp", name_display, Slice10(timestamp), 0, {})
           ELSE Answer("trip_mentioned", name_display, << >>, 0, {})

\* the trip/london loop, from the i-th relevant message on
RECURSIVE TripScan(_, _, _)
TripScan(name_display, relevant_messages, i) ==
  IF i > Len(relevant_messages)
  THEN Answer("trip_not_found", name_display, << >>, 0, {})
  ELSE IF ~IsStr(Get(relevant_messages[i], "message", EmptyStr)) THEN Raised
  ELSE IF Contains(K_london, lower(Get(relevant_messages[i], "message", EmptyStr).s))
       THEN TripAnswerFrom(name_display, relevant_messages[i])
       ELSE TripScan(name_display, relevant_messages, i + 1)

\* car_count after one more message that mentions "car"
CarCountStep(car_count, msg_lower) ==
  IF numbers(msg_lower) # << >>
  THEN (IF car_count >= ParseInt(numbers(msg_lower)[1])
        THEN car_count ELSE ParseInt(numbers(msg_lower)[1]))
  ELSE car_count + 1

\* the car loop, from the i-th relevant message on; -1 when .lower() raises
RECURSIVE CarScan(_, _, _)
CarScan(relevant_messages, i, car_count) ==
  IF i > Len(relevant_messages) THEN car_count
  ELSE IF ~IsStr(Get(relevant_messages[i], "message", EmptyStr)) THEN -1
  ELSE LET msg_lower == lower(Get(relevant_messages[i], "message", EmptyStr).s)
       IN  IF Contains(K_car, msg_lower)
           THEN CarScan(relevant_messages, i + 1, CarCountStep(car_count, msg_lower))
           ELSE CarScan(relevant_messages, i + 1, car_count)

CarAnswer(name_display, relevant_messages) ==
  LET car_count == CarScan(relevant_messages, 1, 0)
  IN  IF car_count < 0 THEN Raised
      ELSE IF car_count > 0
           THEN Answer("car_count", name_display, << >>, car_count, {})
           ELSE Answer("car_not_found", name_display, << >>, 0, {})

\* the restaurant loop
MessageRaises(relevant_messages) ==
  \E i \in 1..Len(relevant_messages) :
    ~IsStr(Get(relevant_messages[i], "message", EmptyStr))
Restaurants(relevant_messages) ==
  UNION { IF Contains(K_restaurant, lower(Get(relevant_messages[i], "message", EmptyStr).s))
          THEN RestaurantsOf(Get(relevant_messages[i], "message", EmptyStr).s)
          ELSE {} : i \in 1..Len(relevant_messages) }

\* list(set(restaurants))[:5]: the order of a set of str is the
\* interpreter's, so any five of more than five names can be the ones kept
MaxRestaurants == 5
FirstFive(S) ==
  IF Cardinality(S) <= MaxRestaurants THEN {S}
  ELSE { T \in SUBSET S : Cardinality(T) = MaxRestaurants }

RestaurantAnswers(name_display, relevant_messages) ==
  IF MessageRaises(relevant_messages) THEN {Raised}
  ELSE IF Restaurants(relevant_messages) # {}
       THEN { Answer("restaurants", name_display, << >>, 0, T) :
                T \in FirstFive(Restaurants(relevant_messages)) }
       ELSE {Answer("restaurant_not_found", name_display, << >>, 0, {})}

FallbackAnswer(name_display, relevant_messages) ==
  IF relevant_messages # << >>
  THEN Answer("fallback_count", name_display, << >>, Len(relevant_messages), {})
  ELSE Answer("not_enough_information", << >>, << >>, 0, {})

\* a decision list that tries the restaurant branch before the car branch
Dispatch_RestaurantBeforeCar(question_lower, name_display, relevant_messages) ==
  IF Contains(K_trip, question_lower) \/ Contains(K_london, question_lower)
  THEN {TripScan(name_display, relevant_messages, 1)}
  ELSE IF Contains(K_restaurant, question_lower) \/ Contains(K_favorite, question_lower)
  THEN RestaurantAnswers(name_display, relevant_messages)
  ELSE IF Contains(K_car, question_lower) \/ Contains(K_cars, question_lower)
  THEN {CarAnswer(name_display, relevant_messages)}
  ELSE {FallbackAnswer(name_display, relevant_messages)}

\* the decision list over the lower-cased question
Dispatch(question_lower, name_display, relevant_messages) ==
  IF Contains(K_trip, question_lower) \/ Contains(K_london, question_lower)
  THEN {TripScan(name_display, relevant_messages, 1)}
  ELSE IF Contains(K_car, question_lower) \/ Contains(K_cars, question_lower)
  THEN {CarAnswer(name_display, relevant_messages)}
  ELSE IF Contains(K_restaurant, question_lower) \/ Contains(K_favorite, question_lower)
  THEN RestaurantAnswers(name_display, relevant_messages)
  ELSE {FallbackAnswer(name_display, relevant_messages)}

\* the outcomes answer_question_simple(q, messages) can have: one, except
\* where the order of a Python set decides which restaurants are kept
answer_question_simple(q, messages) ==
  LET names == ExtractNames(q)
      name_display == IF names # << >> THEN names[1] ELSE TheMember
  IN  IF ~Iterable(messages) THEN {Raised}
      ELSE IF names # << >> /\ FilterRaises(Elements(messages)) THEN {Raised}
      ELSE Dispatch(lower(q), name_display, RelevantMessages(names, Elements(messages)))

---------------------------------------------------------------------------
(* The inputs of the model: questions, records and upstream payloads       *)

\* ""
Q_Empty == << >>
\* " \t"
Q_Blank == <<" ", "\t">>
\* "When is Layla planning her trip to London?" (test_api.py, test_questions)
Q_LaylaTrip == <<"W", "h", "e", "n", " ", "i", "s", " ", "L", "a", "y", "l", "a", " ", "p", "l", "a", "n", "n", "i", "n", "g", " ", "h", "e", "r", " ", "t", "r", "i", "p", " ", "t", "o", " ", "L", "o", "n", "d", "o", "n", "?">>
\* "How many cars does Vikram Desai have?" (test_api.py, test_questions)
Q_VikramCars == <<"H", "o", "w", " ", "m", "a", "n", "y", " ", "c", "a", "r", "s", " ", "d", "o", "e", "s", " ", "V", "i", "k", "r", "a", "m", " ", "D", "e", "s", "a", "i", " ", "h", "a", "v", "e", "?">>
\* "What are Amira's favorite restaurants?" (test_api.py, test_questions)
Q_AmiraRestaurants == <<"W", "h", "a", "t", " ", "a", "r", "e", " ", "A", "m", "i", "r", "a", "'", "s", " ", "f", "a", "v", "o", "r", "i", "t", "e", " ", "r", "e", "s", "t", "a", "u", "r", "a", "n", "t", "s", "?">>
\* "london restaurant?"
Q_LondonRestaurant == <<"l", "o", "n", "d", "o", "n", " ", "r", "e", "s", "t", "a", "u", "r", "a", "n", "t", "?">>
\* "favorite car of Vikram?"
Q_FavoriteCar == <<"f", "a", "v", "o", "r", "i", "t", "e", " ", "c", "a", "r", " ", "o", "f", " ", "V", "i", "k", "r", "a", "m", "?">>
\* "Who is Layla?"
Q_WhoIsLayla == <<"W", "h", "o", " ", "i", "s", " ", "L", "a", "y", "l", "a", "?">>
\* "how many cars?"
Q_HowManyCars == <<"h", "o", "w", " ", "m", "a", "n", "y", " ", "c", "a", "r", "s", "?">>

R_LondonNoDate ==
  Dict([user_name |-> Str(<<"L", "a", "y", "l", "a">>),
        message |-> Str(<<"L", "o", "v", "e", " ", "L", "o", "n", "d", "o", "n">>),
        timestamp |-> Str(<<"2", "0", "2", "4", "-", "0", "1", "-", "0", "2", "T", "1", "0", ":", "0", "0", ":", "0", "0">>)])
R_LondonDate ==
  Dict([user_name |-> Str(<<"L", "a", "y", "l", "a">>),
        message |-> Str(<<"P", "l", "a", "n", "n", "i", "n", "g", " ", "a", " ", "t", "r", "i", "p", " ", "t", "o", " ", "L", "o", "n", "d", "o", "n", " ", "o", "n", " ", "2", "0", "2", "4", "-", "0", "3", "-", "1", "5">>),
        timestamp |-> Str(<<"2", "0", "2", "4", "-", "0", "2", "-", "0", "1", "T", "0", "9", ":", "3", "0", ":", "0", "0">>)])
R_LondonBare ==
  Dict([user_name |-> Str(<<"L", "a", "y", "l", "a">>),
        message |-> Str(<<"l", "o", "n", "d", "o", "n">>)])
R_VikramLondon ==
  Dict([user_name |-> Str(<<"V", "i", "k", "r", "a", "m", " ", "D", "e", "s", "a", "i">>),
        message |-> Str(<<"L", "o", "n", "d", "o", "n", " ", "3", "/", "4", "/", "2", "0", "2", "5">>)])
R_TwoCars ==
  Dict([user_name |-> Str(<<"V", "i", "k", "r", "a", "m", " ", "D", "e", "s", "a", "i">>),
        message |-> Str(<<"I", " ", "h", "a", "v", "e", " ", "2", " ", "c", "a", "r", "s">>)])
R_Car ==
  Dict([user_name |-> Str(<<"V", "i", "k", "r", "a", "m", " ", "D", "e", "s", "a", "i">>),
        message |-> Str(<<"c", "a", "r">>)])
R_Restaurant ==
  Dict([user_name |-> Str(<<"A", "m", "i", "r", "a">>),
        message |-> Str(<<"D", "i", "n", "n", "e", "r", " ", "a", "t", " ", "N", "o", "b", "u", " ", "r", "e", "s", "t", "a", "u", "r", "a", "n", "t">>)])
R_NullName ==
  Dict([user_name |-> None,
        message |-> Str(<<"c", "a", "r">>)])
R_NumMessage ==
  Dict([user_name |-> Str(<<"L", "a", "y", "l", "a">>),
        message |-> Num(7)])
R_NumTimestamp ==
  Dict([user_name |-> Str(<<"L", "a", "y", "l", "a">>),
        message |-> Str(<<"l", "o", "n", "d", "o", "n">>),
        timestamp |-> Num(5)])
R_ListTimestamp ==
  Dict([user_name |-> Str(<<"L", "a", "y", "l", "a">>),
        message |-> Str(<<"l", "o", "n", "d", "o", "n">>),
        timestamp |-> List(<< Num(1), Num(2) >>)])
R_NoFields ==
  Dict([total |-> Num(0)])
R_Named ==
  Dict([name |-> Str(<<"A", "m", "i", "r", "a">>),
        message |-> Str(<< >>)])
R_NotADict ==
  Str(<<"o", "o", "p", "s">>)
R_Number ==
  Num(3)

\* bounds of the explored inputs
MaxMessages == 2   \* length of the message lists given to answer_question_simple
MaxRecords == 3    \* length of the message lists given to analyze_data
MaxFetches == 2    \* GETs issued by the service in one run

RECURSIVE SeqsUpTo(_, _)
SeqsUpTo(S, n) ==
  IF n = 0 THEN { << >> }
  ELSE SeqsUpTo(S, n - 1)
       \cup { Append(q, x) : q \in { r \in SeqsUpTo(S, n - 1) : Len(r) = n - 1 }, x \in S }

\* questions posted to /ask
Questions == { Q_Empty, Q_Blank, Q_LaylaTrip, Q_HowManyCars }

\* bodies the upstream returns with a 2xx status and valid JSON
Payloads ==
  { Dict([total |-> Num(2), items |-> List(<< R_LondonNoDate, R_LondonDate >>)]),
    List(<< R_Car >>),
    Dict([total |-> Num(0), items |-> List(<< >>)]),
    Dict([total |-> Num(0)]),
    Dict([items |-> Num(5)]),
    Dict([items |-> None]),
    Dict([total |-> Num(1), items |-> List(<< R_NullName >>)]),
    R_NotADict }

\* arguments of answer_question_simple
QAQuestions ==
  { Q_LaylaTrip, Q_VikramCars, Q_AmiraRestaurants, Q_LondonRestaurant,
    Q_FavoriteCar, Q_WhoIsLayla, Q_HowManyCars }
QARecords ==
  { R_LondonNoDate, R_LondonDate, R_LondonBare, R_VikramLondon, R_TwoCars, R_Car,
    R_Restaurant, R_NullName, R_NumTimestamp, R_ListTimestamp, R_NotADict }

\* arguments of analyze_data
AnalyzeRecords ==
  { R_LondonBare, R_LondonNoDate, R_NumMessage, R_NoFields, R_Named,
    R_NotADict, R_Number }

---------------------------------------------------------------------------
(* DataFetcher and the /ask handler                                        *)

Clients == {"c1", "c2"}
Startup == "startup"
Coroutines == Clients \cup {Startup}

\* HTTP responses of /ask
\* the round trip of a coroutine's current call of fetch_messages: none
\* made, in flight, raised, or returned the body
NoRoundTrip == [st |-> "none", body |-> None]
Pending == [st |-> "pending", body |-> None]
Failed == [st |-> "error", body |-> None]
Returned(data) == [st |-> "ok", body |-> data]

NoResponse == [status |-> 0, body |-> Raised]
Response(status, body) == [status |-> status, body |-> body]
BadRequest == 400
Unavailable == 503
ServerError == 500
OK == 200

\* a fetch that stores nothing unless the body is an envelope or a list
Unwrap_RejectsMalformed(data) ==
  IF IsDict(data) /\ HasKey(data, "items") /\ IsList(data.f.items) THEN data.f.items
  ELSE IF IsList(data) THEN data
  ELSE None

\* fetch_messages, lines 52-55: what a fetched body puts into _cache
Unwrap(data) ==
  IF IsDict(data) /\ HasKey(data, "items") THEN data.f.items
  ELSE IF IsList(data) THEN data
  ELSE List(<< data >>)

\* a fetch_messages that ignores the cache
MustFetch_Always(force_refresh) == TRUE

\* fetch_messages, line 45: whether the call goes to the network
MustFetch(force_refresh) == cache = None \/ force_refresh

\* a handler that tests `not request.question` alone
IsEmptyQuestion_NoStrip(q) == q = << >>

\* ask_question, line 218
IsEmptyQuestion(q) == q = << >> \/ strip(q) = << >>

\* ask_question after fetch_messages returned messages: the responses the
\* request can end with
Respond(q, messages) ==
  IF ~Truthy(messages)
  THEN { Response(OK, Answer("no_member_data", << >>, << >>, 0, {})) }
  ELSE { IF o.kind = "answer" THEN Response(OK, o) ELSE Response(ServerError, Raised) :
           o \in answer_question_simple(q, messages) }

\* startup_event: fetch_messages() is called once, before any await
StartupBegin ==
  /\ pc[Startup] = "idle"
  /\ netCalls < MaxFetches
  /\ IF MustFetch(FALSE)
     THEN /\ pc' = [pc EXCEPT ![Startup] = "fetching"]
          /\ net' = [net EXCEPT ![Startup] = Pending]
          /\ netCalls' = netCalls + 1
     ELSE /\ pc' = [pc EXCEPT ![Startup] = "done"]
          /\ UNCHANGED << net, netCalls >>
  /\ UNCHANGED << cache, question, resp, qa_question, qa_messages, qa_result,
                  an_messages, an_result >>

\* POST /ask with an empty question: rejected on line 219
AskRejected(c, q) ==
  /\ pc[c] # "fetching"
  /\ IsEmptyQuestion(q)
  /\ question' = [question EXCEPT ![c] = q]
  /\ resp' = [resp EXCEPT ![c] = Response(BadRequest, Raised)]
  /\ pc' = [pc EXCEPT ![c] = "done"]
  /\ net' = [net EXCEPT ![c] = NoRoundTrip]
  /\ UNCHANGED << cache, netCalls, qa_question, qa_messages, qa_result,
                  an_messages, an_result >>

\* POST /ask while the cache is set: fetch_messages returns _cache without
\* suspending and the handler runs to its response
AskCached(c, q) ==
  /\ pc[c] # "fetching"
  /\ ~IsEmptyQuestion(q)
  /\ ~MustFetch(FALSE)
  /\ question' = [question EXCEPT ![c] = q]
  /\ \E r \in Respond(q, cache) : resp' = [resp EXCEPT ![c] = r]
  /\ pc' = [pc EXCEPT ![c] = "done"]
  /\ net' = [net EXCEPT ![c] = NoRoundTrip]
  /\ UNCHANGED << cache, netCalls, qa_question, qa_messages, qa_result,
                  an_messages, an_result >>

\* POST /ask while the cache is unset: the handler suspends in client.get
AskFetch(c, q) ==
  /\ pc[c] # "fetching"
  /\ ~IsEmptyQuestion(q)
  /\ MustFetch(FALSE)
  /\ netCalls < MaxFetches
  /\ question' = [question EXCEPT ![c] = q]
  /\ resp' = [resp EXCEPT ![c] = NoResponse]
  /\ pc' = [pc EXCEPT ![c] = "fetching"]
  /\ net' = [net EXCEPT ![c] = Pending]
  /\ netCalls' = netCalls + 1
  /\ UNCHANGED << cache, qa_question, qa_messages, qa_result, an_messages, an_result >>

\* client.get returned a 2xx body that parses: lines 49-56, then the caller
FetchReturn(p, data) ==
  /\ pc[p] = "fetching"
  /\ cache' = Unwrap(data)
  /\ net' = [net EXCEPT ![p] = Returned(data)]
  /\ pc' = [pc EXCEPT ![p] = "done"]
  /\ IF p \in Clients
     THEN \E r \in Respond(question[p], Unwrap(data)) : resp' = [resp EXCEPT ![p] = r]
     ELSE UNCHANGED resp
  /\ UNCHANGED << question, netCalls, qa_question, qa_messages, qa_result,
                  an_messages, an_result >>

\* a failed fetch that leaves an empty list in the cache
FetchRaise_StoresEmpty(p) ==
  /\ pc[p] = "fetching"
  /\ cache' = List(<< >>)
  /\ net' = [net EXCEPT ![p] = Failed]
  /\ pc' = [pc EXCEPT ![p] = "done"]
  /\ IF p \in Clients
     THEN resp' = [resp EXCEPT ![p] = Response(Unavailable, Raised)]
     ELSE UNCHANGED resp
  /\ UNCHANGED << question, netCalls, qa_question, qa_messages, qa_result,
                  an_messages, an_result >>

\* client.get, raise_for_status or response.json raised: lines 57-61, then
\* the caller (ask_question answers 503, startup_event prints)
FetchRaise(p) ==
  /\ pc[p] = "fetching"
  /\ net' = [net EXCEPT ![p] = Failed]
  /\ pc' = [pc EXCEPT ![p] = "done"]
  /\ IF p \in Clients
     THEN resp' = [resp EXCEPT ![p] = Response(Unavailable, Raised)]
     ELSE UNCHANGED resp
  /\ UNCHANGED << cache, question, netCalls, qa_question, qa_messages, qa_result,
                  an_messages, an_result >>

NotCalled == [called |-> FALSE]

Init ==
  /\ cache = None
  /\ pc = [p \in Coroutines |-> "idle"]
  /\ question = [c \in Clients |-> << >>]
  /\ net = [p \in Coroutines |-> NoRoundTrip]
  /\ resp = [c \in Clients |-> NoResponse]
  /\ netCalls = 0
  /\ qa_question = << >>
  /\ qa_messages = << >>
  /\ qa_result = NotCalled
  /\ an_messages = << >>
  /\ an_result = NotCalled

Next ==
  \/ StartupBegin
  \/ \E c \in Clients, q \in Questions : AskRejected(c, q)
  \/ \E c \in Clients, q \in Questions : AskCached(c, q)
  \/ \E c \in Clients, q \in Questions : AskFetch(c, q)
  \/ \E p \in Coroutines, data \in Payloads : FetchReturn(p, data)
  \/ \E p \in Coroutines : FetchRaise(p)

Spec == Init /\ [][Next]_vars

---------------------------------------------------------------------------
(* answer_question_simple as a function of its arguments                   *)

QAInit ==
  /\ qa_question \in QAQuestions
  /\ qa_messages \in SeqsUpTo(QARecords, MaxMessages)
  /\ qa_result = NotCalled
  /\ cache = None
  /\ pc = [p \in Coroutines |-> "idle"]
  /\ question = [c \in Clients |-> << >>]
  /\ net = [p \in Coroutines |-> NoRoundTrip]
  /\ resp = [c \in Clients |-> NoResponse]
  /\ netCalls = 0
  /\ an_messages = << >>
  /\ an_result = NotCalled

\* one call: the names and the relevant messages it computed on the way,
\* and what it returned or raised
QAAnswer ==
  /\ ~qa_result.called
  /\ \E o \in answer_question_simple(qa_question, List(qa_messages)) :
       qa_result' =
         [called |-> TRUE,
          names |-> ExtractNames(qa_question),
          relevant_messages |->
            IF ExtractNames(qa_question) # << >> /\ FilterRaises(qa_messages)
            THEN << >>
            ELSE RelevantMessages(ExtractNames(qa_question), qa_messages),
          out |-> o]
  /\ UNCHANGED << cache, pc, question, net, resp, netCalls, qa_question,
                  qa_messages, an_messages, an_result >>

QANext == QAAnswer

SpecQA == QAInit /\ [][QANext]_vars

---------------------------------------------------------------------------
(* analyze_data                                                            *)

\* the entries of findings["anomalies"] and findings["inconsistencies"],
\* kept as the f-string's template and the values formatted into it
NotADictionary(i, type) == [kind |-> "not_a_dictionary", index |-> i, type |-> type]
DuplicateMessages(n) == [kind |-> "duplicate_messages", count |-> n]
InconsistentTypes(field, types) ==
  [kind |-> "inconsistent_types", field |-> field, types |-> types]
RareField(field, count, total) ==
  [kind |-> "rare_field", field |-> field, count |-> count, total |-> total]
EmptyValues(n) == [kind |-> "empty_values", count |-> n]

DictIndexes(messages) == { k \in 1..Len(messages) : IsDict(messages[k]) }

\* first loop, lines 53-55: one anomaly per record that is no dict, with
\* the index enumerate() gives it
NotDictAnomalies(messages) ==
  LET all == [k \in 1..Len(messages) |-> NotADictionary(k - 1, messages[k].t)]
  IN  SelectSeq(all, LAMBDA a : ~IsDict(messages[a.index + 1]))

\* first loop, lines 58-60
AllFields(messages) == UNION { DOMAIN messages[k].f : k \in DictIndexes(messages) }
field_counts(messages) ==
  [field \in AllFields(messages) |->
     Cardinality({ k \in DictIndexes(messages) : HasKey(messages[k], field) })]
field_types(messages) ==
  [field \in AllFields(messages) |->
     { messages[k].f[field].t : k \in { j \in DictIndexes(messages) : HasKey(messages[j], field) } }]

\* first loop, lines 65-68
member_names(messages) ==
  UNION { { PyStr(messages[k].f[key]) : key \in {"name", "member"} \cap DOMAIN messages[k].f } :
            k \in DictIndexes(messages) }

\* the keys of KeyOrder whose lower-cased name contains "date" or "time"
DateLikeKeys == {"timestamp"}
\* first loop, lines 71-74: len(dates)
DateEntries(messages) ==
  Cardinality({ p \in DictIndexes(messages) \X DateLikeKeys :
                  HasKey(messages[p[1]], p[2]) /\ Truthy(messages[p[1]].f[p[2]]) })

\* third loop, lines 103-106
IsEmptyValue(v) ==
  v.t = "NoneType" \/ (v.t = "str" /\ v.s = << >>) \/ (v.t = "list" /\ v.l = << >>)
EmptyFieldsRaises(messages) == \E k \in 1..Len(messages) : ~IsDict(messages[k])
empty_fields(messages) ==
  LET keys == { field \in AllFields(messages) :
                  \E k \in DictIndexes(messages) :
                    HasKey(messages[k], field) /\ IsEmptyValue(messages[k].f[field]) }
  IN  [field \in keys |->
         Cardinality({ k \in DictIndexes(messages) :
                         HasKey(messages[k], field) /\ IsEmptyValue(messages[k].f[field]) })]

\* lines 115-116: records are duplicates when their sort_keys
\* serializations are equal, which is when the values are equal
Duplicates(messages) == Len(messages) - Cardinality(Range(messages))

Statistics(messages) ==
  [total_fields |-> Cardinality(AllFields(messages)),
   field_frequency |-> field_counts(messages),
   field_type_variations |-> field_types(messages),
   unique_members_found |-> Cardinality(member_names(messages)),
   date_entries |-> DateEntries(messages),
   empty_field_counts |-> empty_fields(messages)]

Inconsistencies(messages) ==
  { InconsistentTypes(field, field_types(messages)[field]) :
      field \in { f \in AllFields(messages) : Cardinality(field_types(messages)[f]) > 1 } }
  \cup { RareField(field, field_counts(messages)[field], Len(messages)) :
           field \in { f \in AllFields(messages) :
                         2 * field_counts(messages)[f] < Len(messages) } }
  \cup (IF DOMAIN empty_fields(messages) # {}
        THEN { EmptyValues(Cardinality(DOMAIN empty_fields(messages))) }
        ELSE {})

Findings(total, anomalies, statistics, inconsistencies) ==
  [kind |-> "findings", total_messages |-> total, anomalies |-> anomalies,
   statistics |-> statistics, inconsistencies |-> inconsistencies]
AnalyzeRaised == [kind |-> "error"]

\* analyze_data(messages): the findings it returns, or the AttributeError
\* of msg.items() on line 104.  inconsistencies is kept as a set: its order
\* is that of dict and set iteration.  empty_field_counts is the empty
\* mapping where the code leaves the key out.
analyze_data(messages) ==
  IF messages = << >> THEN Findings(0, << >>, << >>, {})
  ELSE IF EmptyFieldsRaises(messages) THEN AnalyzeRaised
  ELSE Findings(Len(messages),
                NotDictAnomalies(messages)
                  \o (IF Duplicates(messages) > 0
                      THEN << DuplicateMessages(Duplicates(messages)) >> ELSE << >>),
                Statistics(messages),
                Inconsistencies(messages))

AnalyzeInit ==
  /\ an_messages \in SeqsUpTo(AnalyzeRecords, MaxRecords)
  /\ an_result = NotCalled
  /\ cache = None
  /\ pc = [p \in Coroutines |-> "idle"]
  /\ question = [c \in Clients |-> << >>]
  /\ net = [p \in Coroutines |-> NoRoundTrip]
  /\ resp = [c \in Clients |-> NoResponse]
  /\ netCalls = 0
  /\ qa_question = << >>
  /\ qa_messages = << >>
  /\ qa_result = NotCalled

Analyze ==
  /\ ~an_result.called
  /\ an_result' = [called |-> TRUE, findings |-> analyze_data(an_messages)]
  /\ UNCHANGED << cache, pc, question, net, resp, netCalls, qa_question,
                  qa_messages, qa_result, an_messages >>

AnalyzeNext == Analyze

SpecAnalyze == AnalyzeInit /\ [][AnalyzeNext]_vars

---------------------------------------------------------------------------
(* Properties                                                              *)

\* a question that is empty or all whitespace
IsBlank(q) == \A i \in 1..Len(q) : IsSpace(q[i])

\* the step is one of client c's handler starting on a new request
Handles(c) ==
  /\ pc[c] # "fetching"
  /\ << pc[c], question[c], resp[c], net[c] >> # << pc'[c], question'[c], resp'[c], net'[c] >>

\* C1: in every state of the cache, a POST /ask whose question is empty or
\* only whitespace is answered 400 with no answer, issues no fetch and
\* leaves the cache as it was.
C1_EmptyQuestionRejected ==
  [][\A c \in Clients :
       (Handles(c) /\ IsBlank(question'[c])) =>
         /\ resp'[c].status = BadRequest
         /\ resp'[c].body.kind # "answer"
         /\ pc'[c] # "fetching"
         /\ net'[c].st = "none"
         /\ netCalls' = netCalls
         /\ cache' = cache]_vars

C1_Witness ==
  \E c \in Clients :
    /\ pc[c] = "done"
    /\ question[c] # << >>
    /\ IsBlank(question[c])
    /\ resp[c].status = BadRequest
    /\ cache # None

\* C2: a fetch that fails ends its /ask request with 503 and does not touch
\* the cache, so a cache that was unset is still unset; and a request with a
\* non-empty question that finds the cache unset issues a new GET.
C2_FailedFetchLeavesCacheUnset ==
  [][\A c \in Clients :
       /\ (pc[c] = "fetching" /\ net'[c].st = "error") =>
            /\ resp'[c].status = Unavailable
            /\ pc'[c] = "done"
            /\ cache' = cache
       /\ (Handles(c) /\ ~IsBlank(question'[c]) /\ cache = None) =>
            /\ pc'[c] = "fetching"
            /\ net'[c].st = "pending"
            /\ netCalls' = netCalls + 1]_vars

C2_Witness ==
  \E c \in Clients, d \in Clients :
    /\ c # d
    /\ pc[c] = "done" /\ net[c].st = "error" /\ resp[c].status = Unavailable
    /\ cache = None
    /\ pc[d] = "fetching" /\ net[d].st = "pending"

\* a fetched value that is a non-empty list of mappings
IsRecordList(v) ==
  /\ IsList(v)
  /\ v.l # << >>
  /\ \A i \in 1..Len(v.l) : IsDict(v.l[i])

\* C3: for every non-empty question and every fetched non-empty list of
\* records, whatever the types of their fields, /ask answers 200 with an
\* answer and never 500.
C3_NeverFailsToAnswer ==
  \A c \in Clients :
    (/\ pc[c] = "done"
     /\ net[c].st = "ok"
     /\ IsRecordList(Unwrap(net[c].body))
     /\ ~IsBlank(question[c])) =>
      /\ resp[c].status = OK
      /\ resp[c].body.kind = "answer"

N_Layla == << "L", "a", "y", "l", "a" >>

\* C4: subject extraction on "When is Layla planning her trip to London?"
\* yields exactly ["Layla"], so that the relevant messages are those that
\* match the name Layla.
C4_SubjectIsLaylaOnly ==
  (qa_result.called /\ qa_question = Q_LaylaTrip) =>
    /\ qa_result.names = << N_Layla >>
    /\ qa_result.relevant_messages =
         SelectSeq(qa_messages, LAMBDA msg : IsDict(msg) /\ NameMatches(<< N_Layla >>, msg))

\* C5: for a car question whose relevant messages are "I have 2 cars" and
\* "car", in either order, the answer reports 2 cars.
C5_CarCountIsMaximum ==
  (/\ qa_result.called
   /\ qa_question = Q_VikramCars
   /\ qa_messages \in { << R_TwoCars, R_Car >>, << R_Car, R_TwoCars >> }) =>
    /\ qa_result.out.tmpl = "car_count"
    /\ qa_result.out.count = 2

\* a fetched body that is neither a mapping with an items list nor a list
MalformedEnvelope(data) ==
  /\ ~IsList(data)
  /\ ~(IsDict(data) /\ HasKey(data, "items") /\ IsList(data.f.items))

\* the value a fetched body leaves in the cache
StoredFor(data) ==
  IF IsDict(data) /\ "items" \in DOMAIN data.f THEN data.f["items"]
  ELSE IF data.t = "list" THEN data
  ELSE List(<< data >>)

\* C6, as stated: a body that parses but is a malformed envelope ends the
\* /ask request with 503.
C6_MalformedEnvelopeIsFailure ==
  \A c \in Clients :
    (pc[c] = "done" /\ net[c].st = "ok" /\ MalformedEnvelope(net[c].body)) =>
      resp[c].status = Unavailable

\* C6, amended: a body that parses but is a malformed envelope is accepted:
\* the items value, whatever its type, or else the one-element list holding
\* the body, is stored in the cache, and the /ask request ends with 200 or
\* 500, never with 503.
C6_MalformedEnvelopeIsAccepted ==
  [][\A p \in Coroutines :
       (pc[p] = "fetching" /\ net'[p].st = "ok" /\ MalformedEnvelope(net'[p].body)) =>
         /\ cache' = StoredFor(net'[p].body)
         /\ p \in Clients => resp'[p].status \in {OK, ServerError}]_vars

C6_Witness ==
  \E c \in Clients :
    /\ pc[c] = "done"
    /\ net[c].st = "ok"
    /\ IsDict(net[c].body) /\ ~HasKey(net[c].body, "items")
    /\ cache = List(<< net[c].body >>)
    /\ resp[c].status = OK

\* the branches of the decision list, in priority order
BranchOf(tmpl) ==
  CASE tmpl \in {"trip_date", "trip_timestamp", "trip_mentioned", "trip_not_found"} -> 1
    [] tmpl \in {"car_count", "car_not_found"} -> 2
    [] tmpl \in {"restaurants", "restaurant_not_found"} -> 3
    [] tmpl \in {"fallback_count", "not_enough_information"} -> 4
Triggers ==
  << {K_trip, K_london}, {K_car, K_cars}, {K_restaurant, K_favorite} >>
Triggered(question_lower) ==
  { b \in 1..Len(Triggers) : \E w \in Triggers[b] : Contains(w, question_lower) }
FirstTriggered(question_lower) ==
  IF Triggered(question_lower) = {} THEN Len(Triggers) + 1
  ELSE Min(Triggered(question_lower))

\* C7: the answer comes from exactly one branch, the first of trip/london,
\* car, restaurant/favorite whose keyword is in the lower-cased question,
\* or the fallback when none is, also when a later branch would have found
\* something and the first can only say it found nothing.
C7_FirstMatchWins ==
  (qa_result.called /\ qa_result.out.kind = "answer") =>
    BranchOf(qa_result.out.tmpl) = FirstTriggered(lower(qa_question))

C7_Witness ==
  /\ qa_result.called
  /\ Cardinality(Triggered(lower(qa_question))) = 2
  /\ qa_result.out.tmpl = "trip_not_found"
  /\ \E o \in RestaurantAnswers(TheMember, qa_result.relevant_messages) :
       o.tmpl = "restaurants"

\* the relevant messages that mention london and hold a date
DatedLondon(msgs) ==
  { i \in 1..Len(msgs) :
      /\ IsStr(Get(msgs[i], "message", EmptyStr))
      /\ Contains(K_london, lower(Get(msgs[i], "message", EmptyStr).s))
      /\ dates(Get(msgs[i], "message", EmptyStr).s) # << >> }

\* C8: for a trip/london question, whenever some relevant message mentions
\* london and holds a date, the answer is the date sentence built from the
\* first such message, also when an earlier london message holds no date.
C8_FirstDatedMessageWins ==
  (/\ qa_result.called
   /\ FirstTriggered(lower(qa_question)) = 1
   /\ DatedLondon(qa_result.relevant_messages) # {}) =>
    /\ qa_result.out.tmpl = "trip_date"
    /\ qa_result.out.text =
         dates(qa_result.relevant_messages[Min(DatedLondon(qa_result.relevant_messages))].f.message.s)[1]

\* C9, amended: the cache is always unset or the whole value one fetch
\* stored, never a merge, and a call of fetch_messages goes to the network
\* only when it found the cache unset.
C9_CacheWholesaleFetchWhenUnset ==
  [][/\ cache' \in {None} \cup { StoredFor(d) : d \in Payloads }
     /\ \A p \in Coroutines : (pc[p] # "fetching" /\ pc'[p] = "fetching") => cache = None
     /\ netCalls' # netCalls => (cache = None /\ netCalls' = netCalls + 1)]_vars

\* C9, as stated: the above, and no call that begins after a fetch has
\* succeeded goes to the network.
C9_NoFetchAfterFirstSuccess ==
  [][/\ cache' \in {None} \cup { StoredFor(d) : d \in Payloads }
     /\ \A p \in Coroutines : (pc[p] # "fetching" /\ pc'[p] = "fetching") => cache = None
     /\ (\E p \in Coroutines : net[p].st = "ok") => netCalls' = netCalls]_vars

C9_Witness ==
  \E p \in Coroutines, r \in Coroutines :
    /\ p # r
    /\ pc[p] = "fetching" /\ net[p].st = "pending"
    /\ net[r].st = "ok"
    /\ cache = StoredFor(net[r].body)
    /\ cache # None

\* C10: analyze_data, on a list that holds a record that is no mapping,
\* returns findings whose anomalies have one entry for each such record.
C10_NonMappingIsAnAnomaly ==
  (an_result.called /\ \E k \in 1..Len(an_messages) : ~IsDict(an_messages[k])) =>
    /\ an_result.findings.kind = "findings"
    /\ Cardinality({ i \in 1..Len(an_result.findings.anomalies) :
                       an_result.findings.anomalies[i].kind = "not_a_dictionary" })
         = Cardinality({ k \in 1..Len(an_messages) : ~IsDict(an_messages[k]) })

====
